---- MODULE Spec2Model ----
(***************************************************************************)
(* Model of the yodel frontend (frontend/src/App.tsx): the App component   *)
(* (snapshot fetches, push socket, message handler) and CreateJobForm      *)
(* (job submission).  React state cells are variables, every event-loop    *)
(* callback is one atomic action.                                          *)
(***************************************************************************)
EXTENDS Integers, Sequences, FiniteSets, TLC

VARIABLES
    phase,          \* "rendered" (useState done), "mounted" (effects ran), "unmounted"
    pendingJobs,    \* App state: Job[]
    completedJobs,  \* App state: Job[]
    locations,      \* App state: Location[]
    connected,      \* App state: boolean
    loading,        \* CreateJobForm state
    url,            \* CreateJobForm state
    location,       \* CreateJobForm state
    alerts,         \* every toast(...) call so far, in order
    fetches,        \* the three snapshot GETs: name -> "idle" | "inflight" | "settled"
    posts,          \* POST /jobs requests in flight (their bodies)
    parsing,        \* responses whose resp.json() promise is not settled yet
    sock,           \* the current underlying WebSocket of the ReconnectingWebSocket
    live,           \* number of underlying WebSockets that are connecting or open
    retryTimer,     \* a reconnect is scheduled
    closeCode,      \* code passed to socket.close, 0 when close was never called
    ev,             \* history: the callback that ran last
    lastFrame,      \* history: the frame handed to onmessage last
    lastResp,       \* history: the response whose handling ran last
    nFinished,      \* history: Finished envelopes delivered
    nFailed,        \* history: Failed envelopes delivered
    reconnected,    \* history: the reconnect timer has fired
    pushed          \* history: the lists a push envelope replaced, where recorded

vars == <<phase, pendingJobs, completedJobs, locations, connected, loading, url,
          location, alerts, fetches, posts, parsing, sock, live, retryTimer,
          closeCode, ev, lastFrame, lastResp, nFinished, nFailed, reconnected,
          pushed>>

appVars  == <<pendingJobs, completedJobs, locations, connected>>
formVars == <<loading, url, location, posts, parsing>>
sockVars == <<sock, live, retryTimer, closeCode>>

----------------------------------------------------------------------------
(* Bounds *)

MaxLen    == 1      \* longest job list a server answer or push frame carries
MaxAlerts == 2      \* toasts emitted in one run
MaxPosts  == 1      \* submissions whose outcome is not fully handled yet
MaxBurst  == 2      \* the same, where the form is submitted again while busy

(* Program constants *)

NormalClosure    == 1000
FinishedToastMs  == 5000
PersistentToast  == 0

----------------------------------------------------------------------------
(* Values *)

Jobs    == {"v1", "v2"}          \* a Job, named by its url
Reasons == {"boom"}
Details == {"detail"}

JobLists == UNION {[1..n -> Jobs] : n \in 0..MaxLen}

\* JavaScript values a parsed frame can hold under a key
Undefined == [t |-> "undefined", list |-> <<>>, url |-> "", reason |-> ""]
Arr(l)    == [t |-> "array", list |-> l, url |-> "", reason |-> ""]
Obj(u, r) == [t |-> "object", list |-> <<>>, url |-> u, reason |-> r]

\* if (v): undefined is falsy, every object is truthy, the empty array included
TruthyNonEmpty(v) == v.t = "object" \/ (v.t = "array" /\ v.list # <<>>)
Truthy(v) == v.t \in {"array", "object"}

\* A text frame: parses |-> FALSE when JSON.parse throws on it
Envelope(tag, v) ==
    [parses        |-> TRUE,
     PendingJobs   |-> IF tag = "PendingJobs" THEN v ELSE Undefined,
     CompletedJobs |-> IF tag = "CompletedJobs" THEN v ELSE Undefined,
     Finished      |-> IF tag = "Finished" THEN v ELSE Undefined,
     Failed        |-> IF tag = "Failed" THEN v ELSE Undefined]

Garbage == [Envelope("none", Undefined) EXCEPT !.parses = FALSE]
NoFrame == Garbage

PendingFrames   == {Envelope("PendingJobs", Arr(l)) : l \in JobLists}
CompletedFrames == {Envelope("CompletedJobs", Arr(l)) : l \in JobLists}
FinishedFrames  == {Envelope("Finished", Obj(j, "")) : j \in Jobs}
FailedFrames    == {Envelope("Failed", Obj("v1", r)) : r \in Reasons}
OtherFrames     == {Envelope("Progress", Obj("v1", "")), Garbage}

Frames == PendingFrames \cup CompletedFrames \cup FinishedFrames
            \cup FailedFrames \cup OtherFrames

\* GET /locations answers: the entries of the name -> path object, in key order
Catalogs == { <<>>, << <<"movies", "/srv/movies">> >>,
              << <<"movies", "/srv/movies">>, <<"music", "/srv/music">> >> }

NoLocation == "<undefined>"
Urls == {"http://x"}

\* POST /jobs answers: status line and whether the body is JSON
Responses ==
    { [status |-> 200, statusText |-> "OK", json |-> TRUE, detail |-> "detail"] }
    \cup [status : {409}, statusText : {"Conflict", ""}, json : BOOLEAN, detail : Details]
    \cup [status : {422}, statusText : {"Unprocessable Entity", ""}, json : BOOLEAN,
          detail : Details]
    \cup [status : {500}, statusText : {"Internal Server Error"}, json : BOOLEAN,
          detail : Details]

NoResp == [status |-> 0, statusText |-> "", json |-> FALSE, detail |-> ""]

Ok(resp) == resp.status >= 200 /\ resp.status <= 299

----------------------------------------------------------------------------
(* react-semantic-toasts *)

toast(options) == alerts' = Append(alerts, options)

CanToast == Len(alerts) < MaxAlerts

----------------------------------------------------------------------------
Init ==
    /\ phase = "rendered"
    /\ pendingJobs = <<>>
    /\ completedJobs = <<>>
    /\ locations = <<>>
    /\ connected = FALSE
    /\ loading = FALSE
    /\ url = ""
    /\ location = NoLocation
    /\ alerts = <<>>
    /\ fetches = [f \in {"jobs", "completed", "locations"} |-> "idle"]
    /\ posts = <<>>
    /\ parsing = <<>>
    /\ sock = "none"
    /\ live = 0
    /\ retryTimer = FALSE
    /\ closeCode = 0
    /\ ev = "render"
    /\ lastFrame = NoFrame
    /\ lastResp = NoResp
    /\ nFinished = 0
    /\ nFailed = 0
    /\ reconnected = FALSE
    /\ pushed = {}

----------------------------------------------------------------------------
(* History bookkeeping shared by the actions *)

HistBase(e, f, r) == ev' = e /\ lastFrame' = f /\ lastResp' = r

Hist(e, f, r) == HistBase(e, f, r) /\ pushed' = pushed

Remove(s, i) == [k \in 1..(Len(s) - 1) |-> IF k < i THEN s[k] ELSE s[k + 1]]

----------------------------------------------------------------------------
(* reconnecting-websocket, the library behind `socket`: its contract as    *)
(* section 4.2 of the specification states it                              *)

closeCalled == closeCode # 0

Live(s) == s \in {"connecting", "open"}

\* new ReconnectingWebSocket(uri): connects at once
RWSConstruct ==
    /\ sock' = "connecting"
    /\ live' = live + 1
    /\ UNCHANGED <<retryTimer, closeCode>>

\* the open handshake of the current WebSocket succeeds
RWSOpened ==
    /\ sock = "connecting"
    /\ sock' = "open"
    /\ UNCHANGED <<live, retryTimer, closeCode>>

\* the current WebSocket closes; a clean close needs an established connection
RWSClosed(wasClean) ==
    /\ sock \in {"connecting", "open", "closing"}
    /\ wasClean => sock \in {"open", "closing"}
    /\ sock' = "closed"
    /\ live' = IF Live(sock) THEN live - 1 ELSE live
    /\ retryTimer' = (~wasClean /\ ~closeCalled)
    /\ UNCHANGED closeCode

\* a transport error: the library drops the WebSocket and schedules a reconnect
RWSErrored ==
    /\ sock \in {"connecting", "open", "closing"}
    /\ sock' = "closed"
    /\ live' = IF Live(sock) THEN live - 1 ELSE live
    /\ retryTimer' = ~closeCalled
    /\ UNCHANGED closeCode

\* the reconnect timer fires
RWSReconnect ==
    /\ retryTimer
    /\ ~closeCalled
    /\ retryTimer' = FALSE
    /\ sock' = "connecting"
    /\ live' = live + 1
    /\ UNCHANGED closeCode

\* socket.close(code): no reconnect from now on, pending timer cancelled
RWSClose(code) ==
    /\ closeCode' = code
    /\ retryTimer' = FALSE
    /\ sock' = IF Live(sock) THEN "closing" ELSE sock
    /\ live' = IF Live(sock) THEN live - 1 ELSE live

----------------------------------------------------------------------------
(* App: the handlers of the socket effect *)

FinishedToast(message) ==
    [type |-> "success", title |-> "Job complete!",
     description |-> message.Finished.url, time |-> FinishedToastMs]

FailedToastAutoDismiss(message) ==
    [type |-> "error", title |-> "Job failed!",
     description |-> message.Failed.reason, time |-> FinishedToastMs]

FailedToast(message) ==
    [type |-> "error", title |-> "Job failed!",
     description |-> message.Failed.reason, time |-> PersistentToast]

\* number of toast calls onmessage makes for a frame
Toasts(frame) ==
    IF ~frame.parses THEN 0
    ELSE (IF Truthy(frame.Finished) THEN 1 ELSE 0)
         + (IF Truthy(frame.Failed) THEN 1 ELSE 0)

\* variant: a Finished envelope also moves the job between the lists
onmessageMovesJob(frame) ==
    IF ~frame.parses
    THEN UNCHANGED <<pendingJobs, completedJobs, alerts>>
    ELSE /\ pendingJobs' = IF Truthy(frame.PendingJobs) THEN frame.PendingJobs.list
                           ELSE IF Truthy(frame.Finished) THEN <<>> ELSE pendingJobs
         /\ completedJobs' = IF Truthy(frame.CompletedJobs)
                             THEN frame.CompletedJobs.list
                             ELSE IF Truthy(frame.Finished)
                                  THEN <<frame.Finished.url>> ELSE completedJobs
         /\ alerts' =
              LET a1 == IF Truthy(frame.Finished)
                        THEN Append(alerts, FinishedToast(frame)) ELSE alerts
              IN  IF Truthy(frame.Failed)
                  THEN Append(a1, FailedToast(frame)) ELSE a1

\* variant: a CompletedJobs envelope announces its last job as well
onmessageToastsLists(frame) ==
    IF ~frame.parses
    THEN UNCHANGED <<pendingJobs, completedJobs, alerts>>
    ELSE /\ pendingJobs' = IF Truthy(frame.PendingJobs)
                           THEN frame.PendingJobs.list ELSE pendingJobs
         /\ completedJobs' = IF Truthy(frame.CompletedJobs)
                             THEN frame.CompletedJobs.list ELSE completedJobs
         /\ alerts' =
              LET a0 == IF Truthy(frame.CompletedJobs) /\ Len(alerts) < MaxAlerts
                        THEN Append(alerts,
                                    [type |-> "success", title |-> "Job complete!",
                                     description |-> "", time |-> FinishedToastMs])
                        ELSE alerts
                  a1 == IF Truthy(frame.Finished)
                        THEN Append(a0, FinishedToast(frame)) ELSE a0
              IN  IF Truthy(frame.Failed)
                  THEN Append(a1, FailedToast(frame)) ELSE a1

\* variant: a list envelope is merged into the list instead of replacing it
onmessageAppends(frame) ==
    IF ~frame.parses
    THEN UNCHANGED <<pendingJobs, completedJobs, alerts>>
    ELSE /\ pendingJobs' = IF Truthy(frame.PendingJobs)
                           THEN pendingJobs \o frame.PendingJobs.list
                           ELSE pendingJobs
         /\ completedJobs' = IF Truthy(frame.CompletedJobs)
                             THEN completedJobs \o frame.CompletedJobs.list
                             ELSE completedJobs
         /\ alerts' =
              LET a1 == IF Truthy(frame.Finished)
                        THEN Append(alerts, FinishedToast(frame)) ELSE alerts
              IN  IF Truthy(frame.Failed)
                  THEN Append(a1, FailedToast(frame)) ELSE a1

\* variant: a frame that does not parse empties both lists
onmessageResetsOnGarbage(frame) ==
    IF ~frame.parses
    THEN pendingJobs' = <<>> /\ completedJobs' = <<>> /\ UNCHANGED alerts
    ELSE /\ pendingJobs' = IF Truthy(frame.PendingJobs)
                           THEN frame.PendingJobs.list ELSE pendingJobs
         /\ completedJobs' = IF Truthy(frame.CompletedJobs)
                             THEN frame.CompletedJobs.list ELSE completedJobs
         /\ alerts' =
              LET a1 == IF Truthy(frame.Finished)
                        THEN Append(alerts, FinishedToast(frame)) ELSE alerts
              IN  IF Truthy(frame.Failed)
                  THEN Append(a1, FailedToast(frame)) ELSE a1

\* socket.onmessage; JSON.parse throws on a frame that does not parse
onmessage(frame) ==
    IF ~frame.parses
    THEN UNCHANGED <<pendingJobs, completedJobs, alerts>>
    ELSE /\ pendingJobs' = IF Truthy(frame.PendingJobs)
                           THEN frame.PendingJobs.list ELSE pendingJobs
         /\ completedJobs' = IF Truthy(frame.CompletedJobs)
                             THEN frame.CompletedJobs.list ELSE completedJobs
         /\ alerts' =
              LET a1 == IF Truthy(frame.Finished)
                        THEN Append(alerts, FinishedToast(frame)) ELSE alerts
              IN  IF Truthy(frame.Failed)
                  THEN Append(a1, FailedToast(frame)) ELSE a1

\* variant: the wasClean test the wrong way round
oncloseInverted(wasClean) == connected' = IF wasClean THEN FALSE ELSE connected

\* socket.onclose
onclose(wasClean) == connected' = IF ~wasClean THEN FALSE ELSE connected

\* socket.onerror
onerror == connected' = FALSE

\* variant: the open handler leaves the status alone
onopenForgets == connected' = connected

\* socket.onopen
onopen == connected' = TRUE

----------------------------------------------------------------------------
(* App: effects and the callbacks they register *)

\* The four effects run once, after the first render
Mount ==
    /\ phase = "rendered"
    /\ phase' = "mounted"
    /\ fetches' = [f \in DOMAIN fetches |-> "inflight"]
    /\ RWSConstruct
    /\ Hist("mount", NoFrame, NoResp)
    /\ UNCHANGED <<appVars, formVars, alerts, nFinished, nFailed, reconnected>>

\* variant: a cleanup that does not close the socket
UnmountWithoutClose ==
    /\ phase = "mounted"
    /\ phase' = "unmounted"
    /\ Hist("unmount", NoFrame, NoResp)
    /\ UNCHANGED <<appVars, formVars, alerts, fetches, sockVars, nFinished, nFailed,
                   reconnected>>

\* The cleanup of the socket effect
Unmount ==
    /\ phase = "mounted"
    /\ phase' = "unmounted"
    /\ RWSClose(NormalClosure)
    /\ Hist("unmount", NoFrame, NoResp)
    /\ UNCHANGED <<appVars, formVars, alerts, fetches, nFinished, nFailed, reconnected>>

Settle(f) ==
    /\ fetches[f] = "inflight"
    /\ fetches' = [fetches EXCEPT ![f] = "settled"]

FetchJobsResolve(data) ==
    /\ Settle("jobs")
    /\ pendingJobs' = data
    /\ Hist("jobs", NoFrame, NoResp)
    /\ UNCHANGED <<phase, completedJobs, locations, connected, formVars, alerts,
                   sockVars, nFinished, nFailed, reconnected>>

FetchCompletedResolve(data) ==
    /\ Settle("completed")
    /\ completedJobs' = data
    /\ Hist("completed", NoFrame, NoResp)
    /\ UNCHANGED <<phase, pendingJobs, locations, connected, formVars, alerts,
                   sockVars, nFinished, nFailed, reconnected>>

\* Object.entries(data) turned into Location[]
ToLocations(data) ==
    [i \in DOMAIN data |-> [name |-> data[i][1], path |-> data[i][2]]]

FetchLocationsResolve(data) ==
    /\ Settle("locations")
    /\ locations' = ToLocations(data)
    /\ Hist("locations", NoFrame, NoResp)
    /\ UNCHANGED <<phase, pendingJobs, completedJobs, connected, formVars, alerts,
                   sockVars, nFinished, nFailed, reconnected>>

\* variant: a failed snapshot fetch empties the list it was for
FetchRejectClearsList(f) ==
    /\ Settle(f)
    /\ pendingJobs' = IF f = "jobs" THEN <<>> ELSE pendingJobs
    /\ completedJobs' = IF f = "completed" THEN <<>> ELSE completedJobs
    /\ Hist("fetchFailed", NoFrame, NoResp)
    /\ UNCHANGED <<phase, locations, connected, formVars, alerts, sockVars,
                   nFinished, nFailed, reconnected>>

\* fetch or resp.json() rejects: .catch logs the error
FetchReject(f) ==
    /\ Settle(f)
    /\ Hist("fetchFailed", NoFrame, NoResp)
    /\ UNCHANGED <<phase, appVars, formVars, alerts, sockVars, nFinished, nFailed,
                   reconnected>>

SocketOpen ==
    /\ RWSOpened
    /\ onopen
    /\ Hist("open", NoFrame, NoResp)
    /\ UNCHANGED <<phase, pendingJobs, completedJobs, locations, formVars, alerts,
                   fetches, nFinished, nFailed, reconnected>>

\* A frame arrives on the open socket and onmessage runs on it
Deliver(frame) ==
    /\ sock = "open"
    /\ Len(alerts) + Toasts(frame) <= MaxAlerts
    /\ onmessage(frame)
    /\ HistBase("message", frame, NoResp)
    /\ nFinished' = nFinished + (IF frame \in FinishedFrames THEN 1 ELSE 0)
    /\ nFailed' = nFailed + (IF frame \in FailedFrames THEN 1 ELSE 0)
    /\ UNCHANGED <<phase, locations, connected, formVars, fetches, sockVars,
                   reconnected>>

SocketMessage(frame) == Deliver(frame) /\ pushed' = pushed

\* The same step, with the list a push envelope replaces put on record
SocketMessageRecorded(frame) ==
    /\ Deliver(frame)
    /\ pushed' = IF frame \in PendingFrames THEN pushed \cup {"pending"}
                 ELSE IF frame \in CompletedFrames THEN pushed \cup {"completed"}
                 ELSE pushed

SocketClose(wasClean) ==
    /\ RWSClosed(wasClean)
    /\ onclose(wasClean)
    /\ Hist(IF wasClean THEN "closeClean" ELSE "closeUnclean", NoFrame, NoResp)
    /\ UNCHANGED <<phase, pendingJobs, completedJobs, locations, formVars, alerts,
                   fetches, nFinished, nFailed, reconnected>>

\* variant: onerror opens a connection of its own on top of the library's retry
SocketErrorReconnects ==
    /\ sock \in {"connecting", "open", "closing"}
    /\ sock' = "connecting"
    /\ live' = IF Live(sock) THEN live ELSE live + 1
    /\ retryTimer' = ~closeCalled
    /\ UNCHANGED closeCode
    /\ onerror
    /\ Hist("error", NoFrame, NoResp)
    /\ UNCHANGED <<phase, pendingJobs, completedJobs, locations, formVars, alerts,
                   fetches, nFinished, nFailed, reconnected>>

SocketError ==
    /\ RWSErrored
    /\ onerror
    /\ Hist("error", NoFrame, NoResp)
    /\ UNCHANGED <<phase, pendingJobs, completedJobs, locations, formVars, alerts,
                   fetches, nFinished, nFailed, reconnected>>

ReconnectTimer ==
    /\ RWSReconnect
    /\ Hist("reconnect", NoFrame, NoResp)
    /\ reconnected' = TRUE
    /\ UNCHANGED <<phase, appVars, formVars, alerts, fetches, nFinished, nFailed>>

----------------------------------------------------------------------------
(* CreateJobForm *)

LocationNames == {locations[i].name : i \in DOMAIN locations}

\* Form.Input onChange
ChangeUrl(u) ==
    /\ phase = "mounted"
    /\ url' = u
    /\ Hist("changeUrl", NoFrame, NoResp)
    /\ UNCHANGED <<phase, appVars, loading, location, posts, parsing, alerts,
                   fetches, sockVars, nFinished, nFailed, reconnected>>

\* Form.Select onChange: the options are the loaded locations
ChangeLocation(name) ==
    /\ phase = "mounted"
    /\ name \in LocationNames
    /\ location' = name
    /\ Hist("changeLocation", NoFrame, NoResp)
    /\ UNCHANGED <<phase, appVars, loading, url, posts, parsing, alerts, fetches,
                   sockVars, nFinished, nFailed, reconnected>>

\* handleSubmit up to the fetch call
handleSubmit ==
    /\ loading' = TRUE
    /\ posts' = Append(posts, [url |-> url, location |-> location])

\* The form is submitted; the URL input is `required`
Submit ==
    /\ phase = "mounted"
    /\ url # ""
    /\ Len(posts) + Len(parsing) < MaxPosts
    /\ handleSubmit
    /\ Hist("submit", NoFrame, NoResp)
    /\ UNCHANGED <<phase, appVars, url, location, parsing, alerts, fetches,
                   sockVars, nFinished, nFailed, reconnected>>

\* variant: an accepted submission is put into the pending list at once
PostResponseAddsJob(i, resp) ==
    /\ i \in DOMAIN posts
    /\ posts' = Remove(posts, i)
    /\ IF Ok(resp)
       THEN /\ url' = ""
            /\ parsing' = parsing
            /\ pendingJobs' = Append(pendingJobs, posts[i].url)
       ELSE /\ url' = url
            /\ parsing' = Append(parsing, resp)
            /\ pendingJobs' = pendingJobs
    /\ loading' = FALSE
    /\ Hist("response", NoFrame, resp)
    /\ UNCHANGED <<phase, completedJobs, locations, connected, location, alerts,
                   fetches, sockVars, nFinished, nFailed, reconnected>>

\* The form is submitted again while a request is in flight (Enter in the URL
\* input): onSubmit calls handleSubmit, which does not look at loading
Resubmit ==
    /\ phase = "mounted"
    /\ url # ""
    /\ posts # <<>>
    /\ Len(posts) + Len(parsing) < MaxBurst
    /\ handleSubmit
    /\ Hist("submit", NoFrame, NoResp)
    /\ UNCHANGED <<phase, appVars, url, location, parsing, alerts, fetches,
                   sockVars, nFinished, nFailed, reconnected>>

\* .then((resp) => ...) followed by .finally
PostResponse(i, resp) ==
    /\ i \in DOMAIN posts
    /\ posts' = Remove(posts, i)
    /\ IF Ok(resp)
       THEN url' = "" /\ parsing' = parsing
       ELSE url' = url /\ parsing' = Append(parsing, resp)
    /\ loading' = FALSE
    /\ Hist("response", NoFrame, resp)
    /\ UNCHANGED <<phase, appVars, location, alerts, fetches, sockVars,
                   nFinished, nFailed, reconnected>>

\* variant: no .finally, the busy flag stays set
PostRejectStaysBusy(i) ==
    /\ i \in DOMAIN posts
    /\ posts' = Remove(posts, i)
    /\ Hist("postFailed", NoFrame, NoResp)
    /\ UNCHANGED <<phase, appVars, loading, url, location, parsing, alerts, fetches,
                   sockVars, nFinished, nFailed, reconnected>>

\* fetch rejects: .catch logs, .finally clears the busy flag
PostReject(i) ==
    /\ i \in DOMAIN posts
    /\ posts' = Remove(posts, i)
    /\ loading' = FALSE
    /\ Hist("postFailed", NoFrame, NoResp)
    /\ UNCHANGED <<phase, appVars, url, location, parsing, alerts, fetches,
                   sockVars, nFinished, nFailed, reconnected>>

\* the toast of resp.json().then((res) => ...)
SubmissionToast(resp) ==
    LET conflict == resp.statusText = "Conflict"
        invalid  == resp.statusText = "Unprocessable Entity"
    IN  [type |-> IF conflict THEN "warning" ELSE "error",
         title |-> IF invalid THEN "Invalid Video Requested"
                   ELSE IF conflict THEN "Conflict: job was already requested"
                   ELSE "Unexpected job startup error!",
         description |-> resp.detail,
         time |-> PersistentToast]

\* resp.json() resolves
JsonResolve(i) ==
    /\ i \in DOMAIN parsing
    /\ parsing[i].json
    /\ CanToast
    /\ toast(SubmissionToast(parsing[i]))
    /\ parsing' = Remove(parsing, i)
    /\ Hist("json", NoFrame, parsing[i])
    /\ UNCHANGED <<phase, appVars, loading, url, location, posts, fetches,
                   sockVars, nFinished, nFailed, reconnected>>

\* resp.json() rejects: nothing handles the rejection
JsonReject(i) ==
    /\ i \in DOMAIN parsing
    /\ ~parsing[i].json
    /\ parsing' = Remove(parsing, i)
    /\ Hist("jsonFailed", NoFrame, parsing[i])
    /\ UNCHANGED <<phase, appVars, loading, url, location, posts, alerts, fetches,
                   sockVars, nFinished, nFailed, reconnected>>

----------------------------------------------------------------------------
\* App: snapshot loader, socket lifecycle and message handler
NextApp ==
    \/ Mount
    \/ Unmount
    \/ \E data \in JobLists : FetchJobsResolve(data)
    \/ \E data \in JobLists : FetchCompletedResolve(data)
    \/ \E f \in {"jobs", "completed"} : FetchReject(f)
    \/ SocketOpen
    \/ \E frame \in Frames : SocketMessage(frame)
    \/ \E wasClean \in BOOLEAN : SocketClose(wasClean)
    \/ SocketError
    \/ ReconnectTimer

\* CreateJobForm and the location catalog it is rendered with
NextForm ==
    \/ Mount
    \/ Unmount
    \/ \E data \in Catalogs : FetchLocationsResolve(data)
    \/ FetchReject("locations")
    \/ \E u \in Urls \cup {""} : ChangeUrl(u)
    \/ \E name \in LocationNames : ChangeLocation(name)
    \/ Submit
    \/ \E i \in 1..MaxPosts, resp \in Responses : PostResponse(i, resp)
    \/ \E i \in 1..MaxPosts : PostReject(i)
    \/ \E i \in 1..MaxPosts : JsonResolve(i)
    \/ \E i \in 1..MaxPosts : JsonReject(i)

Next == NextApp \/ NextForm

\* The whole page
Spec == Init /\ [][Next]_vars

\* The two components on their own.  The form reads the location catalog and
\* writes only its own cells; both append to alerts and neither reads them.
SpecApp == Init /\ [][NextApp]_vars

SpecForm == Init /\ [][NextForm]_vars

\* App with the replaced lists on record
NextRecorded ==
    \/ Mount
    \/ Unmount
    \/ \E data \in JobLists : FetchJobsResolve(data)
    \/ \E data \in JobLists : FetchCompletedResolve(data)
    \/ \E f \in {"jobs", "completed"} : FetchReject(f)
    \/ SocketOpen
    \/ \E frame \in Frames : SocketMessageRecorded(frame)
    \/ \E wasClean \in BOOLEAN : SocketClose(wasClean)
    \/ SocketError
    \/ ReconnectTimer

SpecRecorded == Init /\ [][NextRecorded]_vars

\* CreateJobForm where Enter can be pressed again while a request is in flight
NextResubmit ==
    \/ Mount
    \/ Unmount
    \/ \E u \in Urls \cup {""} : ChangeUrl(u)
    \/ Submit
    \/ Resubmit
    \/ \E i \in 1..MaxBurst, resp \in Responses : PostResponse(i, resp)
    \/ \E i \in 1..MaxBurst : PostReject(i)
    \/ \E i \in 1..MaxBurst : JsonResolve(i)
    \/ \E i \in 1..MaxBurst : JsonReject(i)

SpecResubmit == Init /\ [][NextResubmit]_vars

\* The socket lifecycle under the scheduling the claims about reconnection
\* assume: a scheduled reconnect timer fires, and a transport that is tried
\* again and again eventually accepts the open handshake
SpecAppFair == SpecApp /\ WF_vars(ReconnectTimer) /\ SF_vars(SocketOpen)

----------------------------------------------------------------------------
(* Properties *)

Last(s) == s[Len(s)]

IsSuccess(a) == a.type = "success"
IsJobFailed(a) == a.type = "error" /\ a.title = "Job failed!"

CountSuccess(s) == Cardinality({i \in DOMAIN s : IsSuccess(s[i])})
CountJobFailed(s) == Cardinality({i \in DOMAIN s : IsJobFailed(s[i])})

\* C1: processing PendingJobs(list) leaves pendingJobs equal to exactly that
\* list, the empty list included, and completedJobs as it was; processing
\* CompletedJobs(list) does the same with the roles of the two lists swapped.
C1_ReplaceSemantics ==
    [][/\ (ev' = "message" /\ lastFrame' \in PendingFrames)
            => /\ pendingJobs' = lastFrame'.PendingJobs.list
               /\ completedJobs' = completedJobs
       /\ (ev' = "message" /\ lastFrame' \in CompletedFrames)
            => /\ completedJobs' = lastFrame'.CompletedJobs.list
               /\ pendingJobs' = pendingJobs]_vars

C1_Witness ==
    /\ ev = "message"
    /\ lastFrame = Envelope("PendingJobs", Arr(<<>>))
    /\ fetches["jobs"] = "settled"
    /\ pendingJobs = <<>>
    /\ completedJobs # <<>>

\* C2: after a close event with the clean flag set the status is Disconnected
\* and no reconnect is scheduled or under way.
C2_CleanCloseDisconnects ==
    ev = "closeClean" => ~connected /\ ~retryTimer /\ sock = "closed"

\* C3: an error or an unclean close sets the status to Disconnected and, unless
\* the socket was closed by the client, schedules a reconnect; no open, close or
\* error event changes the alerts.
C3_AbnormalTermination ==
    [][/\ ev' \in {"error", "closeUnclean"}
            => ~connected' /\ (closeCalled \/ retryTimer')
       /\ ev' \in {"open", "closeClean", "closeUnclean", "error"}
            => alerts' = alerts]_vars

C3_Witness ==
    /\ ev = "closeUnclean"
    /\ ~connected
    /\ retryTimer
    /\ alerts # <<>>

\* C4: while the socket has not been closed by the client, an error or unclean
\* close is eventually followed by the status Connected.
C4_ReconnectsEventually ==
    (ev \in {"error", "closeUnclean"} /\ ~closeCalled) ~> (connected \/ closeCalled)

C4_Witness ==
    /\ reconnected
    /\ ev = "open"
    /\ connected
    /\ ~closeCalled

\* C5: once the cleanup has run, the socket was closed with code 1000, no
\* reconnect timer is pending and no connection is connecting or open.
C5_TeardownIsFinal ==
    phase = "unmounted"
        => closeCode = NormalClosure /\ ~retryTimer /\ ~Live(sock) /\ live = 0

\* the cleanup ran while a reconnect was scheduled
C5_Witness ==
    /\ ev = "unmount"
    /\ sock = "closed"
    /\ ~connected
    /\ ~retryTimer

\* C6: at most one connection is connecting or open, and it is the current one.
C6_OneConnection ==
    /\ live <= 1
    /\ live = 1 <=> Live(sock)

C6_Witness ==
    /\ reconnected
    /\ sock = "connecting"
    /\ live = 1

\* C7: processing a Finished or a Failed envelope changes neither list.
C7_TerminalEventsKeepLists ==
    [][(ev' = "message" /\ lastFrame' \in FinishedFrames \cup FailedFrames)
            => pendingJobs' = pendingJobs /\ completedJobs' = completedJobs]_vars

C7_Witness ==
    /\ ev = "message"
    /\ lastFrame \in FinishedFrames
    /\ pendingJobs # <<>>
    /\ completedJobs # <<>>

\* C8: the success alerts are as many as the Finished envelopes delivered, the
\* job-failed alerts as many as the Failed envelopes delivered, and a
\* PendingJobs or CompletedJobs envelope emits no alert.
C8_OneAlertPerDelivery ==
    /\ [](/\ CountSuccess(alerts) = nFinished
          /\ CountJobFailed(alerts) = nFailed)
    /\ [][(ev' = "message" /\ lastFrame' \in PendingFrames \cup CompletedFrames)
            => alerts' = alerts]_vars

C8_Witness ==
    /\ nFinished = 1
    /\ nFailed = 1
    /\ Len(alerts) = 2
    /\ ev = "message"
    /\ lastFrame \in CompletedFrames

\* C9: the alert of a Finished envelope is a success alert shown for 5000 ms
\* that carries the job's url; the alert of a Failed envelope is an error alert
\* that is never dismissed by time and carries the failure reason.
C9_TerminalAlertFields ==
    /\ (ev = "message" /\ lastFrame \in FinishedFrames)
         => /\ alerts # <<>>
            /\ Last(alerts).type = "success"
            /\ Last(alerts).time = 5000
            /\ Last(alerts).description = lastFrame.Finished.url
    /\ (ev = "message" /\ lastFrame \in FailedFrames)
         => /\ alerts # <<>>
            /\ Last(alerts).type = "error"
            /\ Last(alerts).time = 0
            /\ Last(alerts).description = lastFrame.Failed.reason

C9_Witness ==
    /\ ev = "message"
    /\ lastFrame \in FailedFrames
    /\ Len(alerts) = 2
    /\ alerts[1].type = "success"
    /\ alerts[1].description = "v2"

\* C10: once the body of a 409 answer has been read (or has failed to be), the
\* newest alert is the one warning about the conflict: severity warning, a
\* title with "already requested", never dismissed by time.
C10_ConflictWarns ==
    (ev \in {"json", "jsonFailed"} /\ lastResp.status = 409)
        => /\ alerts # <<>>
           /\ Last(alerts).type = "warning"
           /\ Last(alerts).title = "Conflict: job was already requested"
           /\ Last(alerts).time = 0

\* C11: once the body of a non-2xx answer other than 409 has been read (or has
\* failed to be), the newest alert is an error alert never dismissed by time:
\* titled as an invalid video for 422, else generic with the server's detail.
C11_RejectionAlerts ==
    (ev \in {"json", "jsonFailed"} /\ ~Ok(lastResp) /\ lastResp.status # 409)
        => /\ alerts # <<>>
           /\ Last(alerts).type = "error"
           /\ Last(alerts).time = 0
           /\ lastResp.status = 422
                => Last(alerts).title = "Invalid Video Requested"
           /\ lastResp.status # 422
                => /\ Last(alerts).title = "Unexpected job startup error!"
                   /\ Last(alerts).description = lastResp.detail

\* C12: handling a 2xx answer clears the URL input, emits no alert and starts
\* nothing that could emit one, and neither it nor the submission changes the
\* pending or the completed list.
C12_AcceptedSubmission ==
    [][/\ (ev' = "response" /\ Ok(lastResp'))
            => /\ url' = ""
               /\ alerts' = alerts
               /\ parsing' = parsing
               /\ pendingJobs' = pendingJobs
               /\ completedJobs' = completedJobs
       /\ ev' = "submit"
            => /\ alerts' = alerts
               /\ pendingJobs' = pendingJobs
               /\ completedJobs' = completedJobs]_vars

C12_Witness ==
    /\ ev = "response"
    /\ Ok(lastResp)
    /\ url = ""
    /\ ~loading
    /\ alerts = <<>>
    /\ location # NoLocation

\* C13: at most one submission request is in flight, and the form is busy
\* while one is.
C13_OneSubmissionInFlight ==
    /\ Len(posts) <= 1
    /\ posts # <<>> => loading

\* C14: when the request fails without an answer no alert is emitted, the URL
\* input and both lists stay as they were, nothing is left to be parsed and
\* the busy flag is cleared.
C14_TransportFailure ==
    [][ev' = "postFailed"
            => /\ alerts' = alerts
               /\ url' = url
               /\ parsing' = parsing
               /\ pendingJobs' = pendingJobs
               /\ completedJobs' = completedJobs
               /\ ~loading']_vars

\* the failure leaves a form that can be submitted again
C14_Witness ==
    /\ ev = "postFailed"
    /\ phase = "mounted"
    /\ url # ""
    /\ ~loading
    /\ posts = <<>>
    /\ parsing = <<>>

\* C15: a failed snapshot fetch changes no list, no alert, nothing of the
\* socket and not the status; the fetch is settled for good and no other fetch
\* changes state.
C15_SnapshotFailureIsSilent ==
    [][ev' = "fetchFailed"
            => /\ pendingJobs' = pendingJobs
               /\ completedJobs' = completedJobs
               /\ locations' = locations
               /\ connected' = connected
               /\ alerts' = alerts
               /\ sock' = sock /\ live' = live /\ retryTimer' = retryTimer
               /\ Cardinality({f \in DOMAIN fetches : fetches'[f] # fetches[f]}) = 1
               /\ \A f \in DOMAIN fetches :
                      fetches'[f] # fetches[f] => fetches'[f] = "settled"]_vars

\* the pending snapshot failed while the pushed list is shown, the socket is
\* open and the completed snapshot is still under way
C15_Witness ==
    /\ ev = "fetchFailed"
    /\ fetches["jobs"] = "settled"
    /\ fetches["completed"] = "inflight"
    /\ sock = "open"
    /\ pendingJobs # <<>>

\* C16: onmessage running a second time in a row on the same PendingJobs
\* envelope changes neither list, nor the status, nor the alerts.
C16_IdempotentRedelivery ==
    [][(/\ ev = "message" /\ lastFrame \in PendingFrames
        /\ ev' = "message" /\ lastFrame' = lastFrame)
            => /\ pendingJobs' = pendingJobs
               /\ completedJobs' = completedJobs
               /\ connected' = connected
               /\ alerts' = alerts]_vars

\* a PendingJobs envelope was processed and the socket can deliver it again
C16_Witness ==
    /\ ev = "message"
    /\ lastFrame \in PendingFrames
    /\ sock = "open"
    /\ connected
    /\ pendingJobs = lastFrame.PendingJobs.list
    /\ pendingJobs # <<>>
    /\ completedJobs # <<>>
    /\ alerts # <<>>

\* C17: once a PendingJobs envelope has been processed, only processing a
\* PendingJobs envelope changes pendingJobs (so it stays the newest payload);
\* likewise for CompletedJobs and completedJobs.
C17_PushSupersedesSnapshot ==
    [][/\ ("pending" \in pushed
             /\ ~(ev' = "message" /\ lastFrame' \in PendingFrames))
            => pendingJobs' = pendingJobs
       /\ ("completed" \in pushed
             /\ ~(ev' = "message" /\ lastFrame' \in CompletedFrames))
            => completedJobs' = completedJobs]_vars

\* C18: a frame that does not parse, or carries none of the four keys, changes
\* neither list, nor the status, nor the alerts, and leaves the socket open.
C18_MalformedIsDropped ==
    [][(ev' = "message" /\ lastFrame' \in OtherFrames)
            => /\ pendingJobs' = pendingJobs
               /\ completedJobs' = completedJobs
               /\ connected' = connected
               /\ alerts' = alerts
               /\ sock' = "open" /\ live' = live /\ retryTimer' = retryTimer]_vars

C18_Witness ==
    /\ ev = "message"
    /\ lastFrame = Garbage
    /\ sock = "open"
    /\ connected
    /\ pendingJobs # <<>>
    /\ alerts # <<>>

\* C19: a submission made while the catalog is loaded carries the name of one
\* of the loaded locations.
C19_LocationFromCatalog ==
    (ev = "submit" /\ locations # <<>>)
        => Last(posts).location \in LocationNames

====
